---- MODULE Spec2Model ----
(***************************************************************************)
(* The message pipeline of app/server.py: the MQTT message callback, the   *)
(* two envelope parsers (parser_tts3, parser_cs34) and process(), which    *)
(* decodes the device payload, folds the gateway reports, emits telemetry  *)
(* and builds the downlink buffer.                                         *)
(*                                                                         *)
(* Representation.                                                         *)
(*  - A string that the code edits (the MQTT topic) is a sequence of       *)
(*    one-character strings.                                               *)
(*  - An inbound body is [json |-> FALSE] (text json.loads rejects) or     *)
(*    [json |-> TRUE, obj |-> o], o the parsed object: a record whose      *)
(*    DOMAIN is the set of keys present.                                   *)
(*  - base64 text is [b64 |-> bytes]; bytes are sequences of 0..255.       *)
(*  - Floats are fixed point: hdop in tenths, latitude/longitude in 1e-7   *)
(*    degree, accuracy in hundredths, a great-circle distance in           *)
(*    decimetres.                                                          *)
(*  - A gateway location carries, beside the coordinate keys present, the  *)
(*    key "acos": what math.acos yields for these coordinates against the  *)
(*    device's position, [in_domain |-> FALSE] (ValueError, math domain    *)
(*    error) or [in_domain |-> TRUE, decimetres |-> n] (EARTH_RADIUS times *)
(*    the angle).  Floating rounding decides which, so it is an input.     *)
(*  - The telemetry sink (waggle Plugin) is an input too: "ok",            *)
(*    "emit_fails" (plugin.publish raises) or "open_fails" (Plugin() or    *)
(*    its __enter__ raises).                                               *)
(***************************************************************************)
EXTENDS Integers, Sequences, FiniteSets, TLC

VARIABLES parser_type, publish_mode, msg, sink, output, emitted, result,
          raised, sent, trace

vars == <<parser_type, publish_mode, msg, sink, output, emitted, result,
          raised, sent, trace>>

(***************************************************************************)
(* Bounds of the model.                                                    *)
(***************************************************************************)
MaxPayloadLen == 11
MaxGateways == 2
MaxPieces == 4
MaxDistStep == 130

(***************************************************************************)
(* Program constants.                                                      *)
(***************************************************************************)
MAX_DISTANCE == 1000000
MIN_DISTANCE == 0
MAX_RSSI == 200
MIN_RSSI == -200

(***************************************************************************)
(* Small helpers: dict.get, min, max, int().                               *)
(***************************************************************************)
Has(d, k) == k \in DOMAIN d

Get(d, k, default) == IF k \in DOMAIN d THEN d[k] ELSE default

Restrict(d, keys) == [k \in keys |-> d[k]]

min(a, b) == IF b < a THEN b ELSE a

max(a, b) == IF b > a THEN b ELSE a

\* constrain(value, lower, upper) = min(upper, max(lower, value))
constrain_no_lower(value, lower, upper) == min(upper, value)

constrain(value, lower, upper) == min(upper, max(lower, value))

\* int(x) of a non-negative float given in decimetres: truncation to metres.
int_(decimetres) == decimetres \div 10

\* int(round(n / d)) for an integer n >= 0 and d in {10, 250}: Python 3's
\* round() takes a tie to the even neighbour.  n / d is exact in binary
\* floating point at a tie (k + 0.5), and elsewhere at least 1/250 away from
\* one, so the float quotient rounds as the rational does.
round_half_up(n, d) == IF 2 * (n % d) >= d THEN (n \div d) + 1 ELSE n \div d

round_(n, d) ==
    LET q == n \div d
        r == n % d
    IN  IF 2 * r < d THEN q
        ELSE IF 2 * r > d THEN q + 1
        ELSE IF q % 2 = 0 THEN q ELSE q + 1

\* str.replace(old, new): every non-overlapping occurrence, left to right.
RECURSIVE replace(_, _, _)
replace(s, old, new) ==
    IF Len(s) < Len(old) THEN s
    ELSE IF SubSeq(s, 1, Len(old)) = old
         THEN new \o replace(SubSeq(s, Len(old) + 1, Len(s)), old, new)
         ELSE <<Head(s)>> \o replace(Tail(s), old, new)

b64decode(text) == text.b64

b64encode(bytes) == [b64 |-> bytes]

(***************************************************************************)
(* process(): payload decoding.                                            *)
(***************************************************************************)
\* data[i] of the code (0-based).
Byte(data, i) == data[i + 1]

DecodeGps(data) ==
    LET hdop == Byte(data, 8)
        sats == Byte(data, 9)
        has_gps == (hdop <= 20) /\ (sats >= 5)
        lonSign == IF (Byte(data, 0) \div 128) % 2 = 1 THEN -1 ELSE 1
        latSign == IF (Byte(data, 0) \div 64) % 2 = 1 THEN -1 ELSE 1
        encLat == (Byte(data, 0) % 64) * 131072 + Byte(data, 1) * 512
                    + Byte(data, 2) * 2 + (Byte(data, 3) \div 128)
        encLon == (Byte(data, 3) % 128) * 65536 + Byte(data, 4) * 256
                    + Byte(data, 5)
        base == [hdop |-> hdop, sats |-> sats, has_gps |-> has_gps]
    IN  IF has_gps
        THEN base @@ [latitude |-> latSign * (encLat * 108 + 53),
                      longitude |-> lonSign * (encLon * 215 + 107),
                      altitude |-> (Byte(data, 6) * 256 + Byte(data, 7)) - 1000,
                      accuracy |-> hdop * 5 + 50]
        ELSE base

(***************************************************************************)
(* process(): the fold over the gateway reports.                           *)
(***************************************************************************)
InitialAggregate_zero_min(gps, gateways) ==
    gps @@ [num_gateways |-> Len(gateways),
            min_distance |-> MIN_DISTANCE,
            max_distance |-> MIN_DISTANCE,
            min_rssi |-> MAX_RSSI,
            max_rssi |-> MIN_RSSI]

InitialAggregate(gps, gateways) ==
    gps @@ [num_gateways |-> Len(gateways),
            min_distance |-> IF gps.has_gps THEN MAX_DISTANCE ELSE MIN_DISTANCE,
            max_distance |-> MIN_DISTANCE,
            min_rssi |-> MAX_RSSI,
            max_rssi |-> MIN_RSSI]

\* lat is not None and lon is not None, for loc = gateway.get('location', {})
Located(gateway) ==
    LET loc == Get(gateway, "location", <<>>)
    IN  Has(loc, "latitude") /\ Has(loc, "longitude")

\* circleDistance(output, loc): EARTH_RADIUS * math.acos(...)
circleDistance(out, loc) ==
    IF loc.acos.in_domain
    THEN [raised |-> "none", value |-> loc.acos.decimetres]
    ELSE [raised |-> "ValueError", value |-> 0]

FoldRssi(out, gateway) ==
    [out EXCEPT !.min_rssi = min(@, Get(gateway, "rssi", MAX_RSSI)),
                !.max_rssi = max(@, Get(gateway, "rssi", MIN_RSSI))]

FoldDistance_swapped(out, distance) ==
    [out EXCEPT !.min_distance = max(@, distance),
                !.max_distance = min(@, distance)]

FoldDistance(out, distance) ==
    [out EXCEPT !.min_distance = min(@, distance),
                !.max_distance = max(@, distance)]

\* The loop of lines 180-192 from gateway i on; a ValueError of math.acos
\* leaves it with the output as it stands.
RECURSIVE FoldGateways(_, _, _)
\* lines 190-192, c the result of circleDistance for gateway i
FoldLocated(out, c, gateways, i) ==
    IF c.raised # "none"
    THEN [raised |-> c.raised, output |-> out]
    ELSE FoldGateways(FoldDistance(out, int_(c.value)), gateways, i + 1)

\* lines 185-189, out the output after the rssi of gateway i
FoldLocation(out, gateways, i) ==
    IF out.has_gps /\ Located(gateways[i])
    THEN FoldLocated(out, circleDistance(out, gateways[i].location), gateways, i)
    ELSE FoldGateways(out, gateways, i + 1)

FoldGateways(out, gateways, i) ==
    IF i > Len(gateways) THEN [raised |-> "none", output |-> out]
    ELSE FoldLocation(FoldRssi(out, gateways[i]), gateways, i)

(***************************************************************************)
(* publish() and the telemetry block of process() (lines 194-206).         *)
(***************************************************************************)
\* The eleven measurements, in the order of the calls: name and output key.
Measurements ==
    << [name |-> "gps.hdop", key |-> "hdop"],
       [name |-> "gps.sats", key |-> "sats"],
       [name |-> "gps.latitude", key |-> "latitude"],
       [name |-> "gps.longitude", key |-> "longitude"],
       [name |-> "gps.altitude", key |-> "altitude"],
       [name |-> "gps.accuracy", key |-> "accuracy"],
       [name |-> "gateway.min_distance", key |-> "min_distance"],
       [name |-> "gateway.max_distance", key |-> "max_distance"],
       [name |-> "gateway.min_rssi", key |-> "min_rssi"],
       [name |-> "gateway.max_rssi", key |-> "max_rssi"],
       [name |-> "gateway.num_gateways", key |-> "num_gateways"] >>

\* publish(measurement): a None value is skipped; "with Plugin()" stands
\* outside the try, so a failure to open the sink leaves the function; a
\* failure of plugin.publish is caught and logged.
publish(out, measurement, snk) ==
    IF ~Has(out, measurement.key) THEN [raised |-> "none", emitted |-> <<>>]
    ELSE IF snk = "open_fails" THEN [raised |-> "PluginError", emitted |-> <<>>]
    ELSE IF snk = "emit_fails" THEN [raised |-> "none", emitted |-> <<>>]
    ELSE [raised |-> "none",
          emitted |-> << [name |-> measurement.name,
                          value |-> out[measurement.key]] >>]

RECURSIVE PublishAll(_, _, _, _)
\* r the result of call i
PublishNext(out, snk, i, done, r) ==
    IF r.raised # "none"
    THEN [raised |-> r.raised, emitted |-> done]
    ELSE PublishAll(out, snk, i + 1, done \o r.emitted)

PublishAll(out, snk, i, done) ==
    IF i > Len(Measurements) THEN [raised |-> "none", emitted |-> done]
    ELSE PublishNext(out, snk, i, done, publish(out, Measurements[i], snk))

\* if config.get('publish'): the eleven calls
Telemetry(out, publish_on, snk) ==
    IF publish_on THEN PublishAll(out, snk, 1, <<>>)
    ELSE [raised |-> "none", emitted |-> <<>>]

(***************************************************************************)
(* process(): the response buffer (lines 208-231).                         *)
(***************************************************************************)
EncodeBuffer(out, port, sequence_id) ==
    IF port = 1
    THEN LET min_distance == IF out.has_gps
                             THEN constrain(round_(out.min_distance, 250), 1, 128)
                             ELSE 0
             max_distance == IF out.has_gps
                             THEN constrain(round_(out.max_distance, 250), 1, 128)
                             ELSE 0
         IN  out @@ [buffer |-> << sequence_id % 256,
                                   (out.min_rssi + 200) % 256,
                                   (out.max_rssi + 200) % 256,
                                   min_distance,
                                   max_distance,
                                   out.num_gateways % 256 >>]
    ELSE IF port = 11
    THEN LET min_distance == IF out.has_gps
                             THEN constrain(round_(out.min_distance, 10), 1, 65535)
                             ELSE 0
             max_distance == IF out.has_gps
                             THEN constrain(round_(out.max_distance, 10), 1, 65535)
                             ELSE 0
         IN  out @@ [buffer |-> << sequence_id % 256,
                                   (out.min_rssi + 200) % 256,
                                   (out.max_rssi + 200) % 256,
                                   (min_distance \div 256) % 256,
                                   min_distance % 256,
                                   (max_distance \div 256) % 256,
                                   max_distance % 256,
                                   out.num_gateways % 256 >>]
    ELSE out

(***************************************************************************)
(* process(data, port, sequence_id, gateways, config).                     *)
(* The result: the exception that left it ("none": it returned), the       *)
(* output dict as it stood then, the measurements emitted.                 *)
(***************************************************************************)
\* lines 208-233, tel the result of the telemetry block
AfterTelemetry(out, tel, port, sequence_id) ==
    IF tel.raised # "none"
    THEN [raised |-> tel.raised, output |-> out, emitted |-> tel.emitted]
    ELSE [raised |-> "none", output |-> EncodeBuffer(out, port, sequence_id),
          emitted |-> tel.emitted]

\* lines 194-233, folded the result of the gateway loop
AfterFold(folded, port, sequence_id, publish_on, snk) ==
    IF folded.raised # "none"
    THEN [raised |-> folded.raised, output |-> folded.output, emitted |-> <<>>]
    ELSE AfterTelemetry(folded.output,
                        Telemetry(folded.output, publish_on, snk),
                        port, sequence_id)

process(data, port, sequence_id, gateways, publish_on, snk) ==
    IF Len(data) < 9
    THEN [raised |-> "IndexError", output |-> <<>>, emitted |-> <<>>]
    ELSE IF Len(data) < 10
    THEN [raised |-> "IndexError", output |-> [hdop |-> Byte(data, 8)],
          emitted |-> <<>>]
    ELSE AfterFold(FoldGateways(InitialAggregate(DecodeGps(data), gateways),
                                gateways, 1),
                   port, sequence_id, publish_on, snk)

(***************************************************************************)
(* The envelope parsers.                                                   *)
(***************************************************************************)
UP == <<"/", "u", "p">>

DOWN_REPLACE == <<"/", "d", "o", "w", "n", "/", "r", "e", "p", "l", "a", "c", "e">>

EVENT_UP == <<"/", "e", "v", "e", "n", "t", "/", "u", "p">>

COMMAND_DOWN == <<"/", "c", "o", "m", "m", "a", "n", "d", "/", "d", "o", "w", "n">>

\* What a parser hands back: nothing (an exception left it), [False, False],
\* or [topic, payload].
NoResult == [returned |-> FALSE]

NoDownlink == [returned |-> TRUE, downlink |-> FALSE]

Downlink(topic, payload) ==
    [returned |-> TRUE, downlink |-> TRUE, topic |-> topic, payload |-> payload]

Return(ret, steps) ==
    [raised |-> "none", ret |-> ret, output |-> <<>>, emitted |-> <<>>,
     trace |-> steps]

Raise(exception, steps) ==
    [raised |-> exception, ret |-> NoResult, output |-> <<>>,
     emitted |-> <<>>, trace |-> steps]

\* if port != 1 and port != 11: return [False, False]
PortSupported_any(port) == TRUE

PortSupported(port) == port = 1 \/ port = 11

\* The downlink body of each parser; p is the inbound object.
BuildDownlink(ptype, port, buffer, p) ==
    IF ptype = "TheThingsStack_v3"
    THEN [downlinks |-> << [f_port |-> port + 1,
                            frm_payload |-> b64encode(buffer),
                            priority |-> "HIGH"] >>]
    ELSE IF Has(p, "deviceInfo")
    THEN [confirmed |-> FALSE, fPort |-> port + 1, data |-> b64encode(buffer),
          devEui |-> p.deviceInfo.devEui]
    ELSE [confirmed |-> FALSE, fPort |-> port + 1, data |-> b64encode(buffer)]

\* The tail shared by both parsers once process() has been called: r is its
\* result, topic the rewritten topic.
AfterProcess(ptype, r, topic, port, p) ==
    IF r.raised # "none"
    THEN [raised |-> r.raised, ret |-> NoResult, output |-> r.output,
          emitted |-> r.emitted,
          trace |-> <<"json.loads", "b64decode", "process">>]
    ELSE IF DOMAIN r.output = {}
    THEN [raised |-> "none", ret |-> NoDownlink, output |-> r.output,
          emitted |-> r.emitted,
          trace |-> <<"json.loads", "b64decode", "process">>]
    ELSE IF ~Has(r.output, "buffer")
            \/ (ptype = "ChirpStack_v3+" /\ Has(p, "deviceInfo")
                /\ ~Has(p.deviceInfo, "devEui"))
    THEN [raised |-> "KeyError", ret |-> NoResult, output |-> r.output,
          emitted |-> r.emitted,
          trace |-> <<"json.loads", "b64decode", "process">>]
    ELSE [raised |-> "none",
          ret |-> Downlink(topic, BuildDownlink(ptype, port, r.output.buffer, p)),
          output |-> r.output, emitted |-> r.emitted,
          trace |-> <<"json.loads", "b64decode", "process", "json.dumps">>]

\* lines 253-278, um the uplink_message with every field present
Tts3Uplink(um, publish_on, topic, snk) ==
    AfterProcess("TheThingsStack_v3",
                 process(b64decode(um.frm_payload), um.f_port, um.f_cnt,
                         um.rx_metadata, publish_on, snk),
                 replace(topic, UP, DOWN_REPLACE), um.f_port, um)

\* lines 248-251, um the uplink_message
Tts3Port(um, publish_on, topic, snk) ==
    IF ~Has(um, "f_port") THEN Raise("KeyError", <<"json.loads">>)
    ELSE IF ~PortSupported(um.f_port) THEN Return(NoDownlink, <<"json.loads">>)
    ELSE IF ~Has(um, "f_cnt") \/ ~Has(um, "rx_metadata") \/ ~Has(um, "frm_payload")
    THEN Raise("KeyError", <<"json.loads">>)
    ELSE Tts3Uplink(um, publish_on, topic, snk)

parser_tts3(publish_on, topic, payload, snk) ==
    IF ~payload.json THEN Return(NoDownlink, <<"json.loads">>)
    ELSE IF ~Has(payload.obj, "uplink_message")
    THEN Return(NoDownlink, <<"json.loads">>)
    ELSE Tts3Port(payload.obj.uplink_message, publish_on, topic, snk)

\* lines 293-323, p the parsed payload and port = payload.get('fPort', 0)
Cs34Port(p, port, publish_on, topic, snk) ==
    IF ~PortSupported(port) THEN Return(NoDownlink, <<"json.loads">>)
    ELSE IF ~Has(p, "fCnt") \/ ~Has(p, "rxInfo") \/ ~Has(p, "data")
    THEN Raise("KeyError", <<"json.loads">>)
    ELSE AfterProcess("ChirpStack_v3+",
                      process(b64decode(p.data), port, p.fCnt, p.rxInfo,
                              publish_on, snk),
                      replace(topic, EVENT_UP, COMMAND_DOWN), port, p)

parser_cs34(publish_on, topic, payload, snk) ==
    IF ~payload.json THEN Return(NoDownlink, <<"json.loads">>)
    ELSE Cs34Port(payload.obj, Get(payload.obj, "fPort", 0), publish_on, topic, snk)

\* main(): parser = parser_tts3 or parser_cs34 by config parser.type
parser(ptype, publish_on, topic, payload, snk) ==
    IF ptype = "TheThingsStack_v3"
    THEN parser_tts3(publish_on, topic, payload, snk)
    ELSE parser_cs34(publish_on, topic, payload, snk)

(***************************************************************************)
(* mqtt_on_message(client, userdata, msg): the whole callback.  m is the   *)
(* inbound message, snk the telemetry sink's behaviour while it is handled. *)
(***************************************************************************)
NoMessage == [topic |-> <<>>, payload |-> [json |-> FALSE]]

\* lines 351-355, r what parser(config, msg.topic, payload) did
Callback(m, snk, r) ==
    /\ trace = <<>>
    /\ msg' = m
    /\ sink' = snk
    /\ output' = r.output
    /\ emitted' = r.emitted
    /\ result' = r.ret
    /\ raised' = r.raised
    /\ IF r.raised = "none" /\ r.ret.downlink /\ r.ret.topic # <<>>
       THEN /\ sent' = << [topic |-> r.ret.topic, payload |-> r.ret.payload] >>
            /\ trace' = r.trace \o <<"mqtt.publish">>
       ELSE /\ sent' = <<>>
            /\ trace' = r.trace
    /\ UNCHANGED <<parser_type, publish_mode>>

mqtt_on_message(m, snk) ==
    Callback(m, snk, parser(parser_type, publish_mode, m.topic, m.payload, snk))

\* The callback is over (it returned, or its exception left it) and its
\* locals are gone; the client loop waits for the next message.
loop ==
    /\ trace # <<>>
    /\ msg' = NoMessage
    /\ sink' = "ok"
    /\ output' = <<>>
    /\ emitted' = <<>>
    /\ result' = NoResult
    /\ raised' = "none"
    /\ sent' = <<>>
    /\ trace' = <<>>
    /\ UNCHANGED <<parser_type, publish_mode>>

(***************************************************************************)
(* Inbound messages.                                                       *)
(***************************************************************************)
ParserTypes == {"TheThingsStack_v3", "ChirpStack_v3+"}

Sinks == {"ok", "emit_fails", "open_fails"}

\* The subscribe topics main() generates, for device "d".
DefaultTopic(ptype) ==
    IF ptype = "TheThingsStack_v3"
    THEN <<"v", "3", "/", "a", "/", "d", "e", "v", "i", "c", "e", "s", "/", "d">> \o UP
    ELSE <<"a", "p", "p", "l", "i", "c", "a", "t", "i", "o", "n", "/", "1", "/", "d", "e", "v", "i", "c", "e", "/", "d">> \o EVENT_UP

\* A device payload of n bytes; bytes 8 and 9 are hdop (tenths) and sats.
Payload(n, hdop, sats) ==
    SubSeq(<<197, 35, 84, 190, 17, 42, 4, 76, hdop, sats>>
             \o [i \in 1..(IF n > 10 THEN n - 10 ELSE 0) |-> 0],
           1, n)

FixPayload == Payload(10, 10, 7)

NoFixPayload == Payload(10, 30, 7)

\* A gateway location with both coordinates, d decimetres from the device.
At(d) == [latitude |-> 0, longitude |-> 0,
          acos |-> [in_domain |-> TRUE, decimetres |-> d]]

\* A gateway location for which math.acos raises.
OutOfDomain == [latitude |-> 0, longitude |-> 0, acos |-> [in_domain |-> FALSE]]

\* A gateway location with a latitude and no longitude.
Partial == [latitude |-> 0, acos |-> [in_domain |-> TRUE, decimetres |-> 0]]

\* An uplink with every required field, in the envelope of the parser type.
Uplink(ptype, port, fcnt, gateways, data, v4) ==
    IF ptype = "TheThingsStack_v3"
    THEN [uplink_message |->
            [f_port |-> port, f_cnt |-> fcnt, rx_metadata |-> gateways,
             frm_payload |-> b64encode(data)]]
    ELSE IF v4
    THEN [fPort |-> port, fCnt |-> fcnt, rxInfo |-> gateways,
          data |-> b64encode(data), deviceInfo |-> [devEui |-> "d"]]
    ELSE [fPort |-> port, fCnt |-> fcnt, rxInfo |-> gateways,
          data |-> b64encode(data)]

\* The required fields of the spec's section 6, per envelope.
RequiredKeys(ptype) ==
    IF ptype = "TheThingsStack_v3"
    THEN {"f_port", "f_cnt", "rx_metadata", "frm_payload"}
    ELSE {"fPort", "fCnt", "rxInfo", "data"}

\* The object with only the keys in keep (of the required ones) present.
Drop(ptype, obj, keep) ==
    IF ptype = "TheThingsStack_v3"
    THEN [uplink_message |-> Restrict(obj.uplink_message, keep)]
    ELSE Restrict(obj, keep \cup (DOMAIN obj \ RequiredKeys(ptype)))

Message(topic, obj) == [topic |-> topic, payload |-> [json |-> TRUE, obj |-> obj]]

Ports == {0, 1, 5, 11}

SampleGateways ==
    { <<>>,
      << [rssi |-> -80, location |-> At(5009)] >>,
      << [rssi |-> -80], [rssi |-> -60, location |-> At(10000)] >> }

EnvelopePayloads ==
    { Payload(n, h[1], h[2]) :
        n \in 0..MaxPayloadLen, h \in {<<10, 7>>, <<30, 7>>, <<10, 3>>} }

\* Envelopes of every shape: text that is no JSON, an object without
\* uplink_message, and uplinks with any subset of the required fields.
EnvelopeMessages(ptype) ==
    { [topic |-> DefaultTopic(ptype), payload |-> [json |-> FALSE]],
      Message(DefaultTopic(ptype), <<>>) }
    \cup
    { Message(DefaultTopic(ptype),
              Drop(ptype, Uplink(ptype, port, 300, gws, data, v4), keep)) :
        port \in Ports, gws \in SampleGateways, data \in EnvelopePayloads,
        v4 \in BOOLEAN, keep \in SUBSET RequiredKeys(ptype) }

\* Topics: up to MaxPieces pieces, each a fragment of a topic.
Pieces == { <<"v">>, <<"/", "d">>, <<"u", "p">>, UP, <<"/", "e", "v", "e", "n", "t">> }

RECURSIVE TopicsOf(_)
TopicsOf(n) ==
    IF n = 0 THEN { <<>> }
    ELSE LET shorter == TopicsOf(n - 1)
         IN  shorter \cup { t \o piece : t \in shorter, piece \in Pieces }

TopicMessages(ptype) ==
    { Message(t, Uplink(ptype, 1, 300, << [rssi |-> -80] >>, FixPayload, FALSE)) :
        t \in TopicsOf(MaxPieces) \ { <<>> } }

\* Gateway reports: rssi absent or present, location absent, partial, out of
\* acos's domain, or at a distance (the last above MAX_DISTANCE metres).
Locations == { Partial, OutOfDomain, At(0), At(5009), At(12000007) }

GatewayReports ==
    { [rssi |-> r] : r \in {-80, -60} }
    \cup { [location |-> l] : l \in Locations }
    \cup { [rssi |-> r, location |-> l] : r \in {-80, -60}, l \in Locations }
    \cup { <<>> }

RECURSIVE ReportLists(_)
ReportLists(n) ==
    IF n = 0 THEN { <<>> }
    ELSE LET shorter == ReportLists(n - 1)
         IN  shorter \cup { Append(l, g) : l \in shorter, g \in GatewayReports }

AggregateMessages(ptype) ==
    { Message(DefaultTopic(ptype), Uplink(ptype, port, 300, gws, data, FALSE)) :
        port \in {1, 11}, gws \in ReportLists(MaxGateways),
        data \in {FixPayload, NoFixPayload} }

\* Encoder inputs: two located gateways d and d + delta metres away, and up
\* to one more without a location.
EncoderDistances ==
    { 5 * k : k \in 0..MaxDistStep }
    \cup { 12345, 31875, 32125, 100000, 655345, 655355, 999995, 1200000 }

EncoderGateways ==
    { << [rssi |-> r[1], location |-> At(10 * d)],
         [rssi |-> r[2], location |-> At(10 * (d + delta))] >> \o extra :
        r \in { <<-80, -60>>, <<60, -210>> },
        d \in EncoderDistances, delta \in {0, 500},
        extra \in { <<>>, << [rssi |-> -70] >> } }
    \cup { <<>>, << [rssi |-> -80] >> }

EncoderMessages(ptype) ==
    { Message(DefaultTopic(ptype), Uplink(ptype, port, fcnt, gws, data, TRUE)) :
        port \in {1, 11}, fcnt \in {-1, 0, 300}, gws \in EncoderGateways,
        data \in {FixPayload, NoFixPayload} }

(***************************************************************************)
(* Specifications.  main() fixes the parser and the publish flag; then the *)
(* callback runs once per inbound message.                                 *)
(***************************************************************************)
Init ==
    /\ parser_type \in ParserTypes
    /\ publish_mode \in BOOLEAN
    /\ msg = NoMessage
    /\ sink = "ok"
    /\ output = <<>>
    /\ emitted = <<>>
    /\ result = NoResult
    /\ raised = "none"
    /\ sent = <<>>
    /\ trace = <<>>

OnEnvelope ==
    /\ trace = <<>>
    /\ \E m \in EnvelopeMessages(parser_type), snk \in Sinks : mqtt_on_message(m, snk)

Next == OnEnvelope \/ loop

Spec == Init /\ [][Next]_vars

OnTopic ==
    /\ trace = <<>>
    /\ \E m \in TopicMessages(parser_type) : mqtt_on_message(m, "ok")

NextTopic == OnTopic \/ loop

SpecTopic == Init /\ [][NextTopic]_vars

OnAggregate ==
    /\ trace = <<>>
    /\ \E m \in AggregateMessages(parser_type) : mqtt_on_message(m, "ok")

NextAggregate == OnAggregate \/ loop

SpecAggregate == Init /\ [][NextAggregate]_vars

OnEncoder ==
    /\ trace = <<>>
    /\ \E m \in EncoderMessages(parser_type) : mqtt_on_message(m, "ok")

NextEncoder == OnEncoder \/ loop

SpecEncoder == Init /\ [][NextEncoder]_vars

(***************************************************************************)
(* Vocabulary of the properties: the inbound message of the state.         *)
(***************************************************************************)
Handled == trace # <<>>

IsTts3 == parser_type = "TheThingsStack_v3"

\* The object that holds the uplink's fields (empty when there is none).
MsgFields ==
    IF ~msg.payload.json THEN <<>>
    ELSE IF IsTts3 THEN Get(msg.payload.obj, "uplink_message", <<>>)
    ELSE msg.payload.obj

WellFormed == msg.payload.json /\ RequiredKeys(parser_type) \subseteq DOMAIN MsgFields

MsgPort == IF IsTts3 THEN MsgFields.f_port ELSE MsgFields.fPort

MsgSeq == IF IsTts3 THEN MsgFields.f_cnt ELSE MsgFields.fCnt

MsgGateways == IF IsTts3 THEN MsgFields.rx_metadata ELSE MsgFields.rxInfo

MsgData == IF IsTts3 THEN MsgFields.frm_payload.b64 ELSE MsgFields.data.b64

\* hasFix of the spec: hdop <= 2.0 and satellites >= 5, of a 10-byte payload.
MsgHasFix == Len(MsgData) >= 10 /\ MsgData[9] <= 20 /\ MsgData[10] >= 5

\* The reports that carry a location: both coordinates.
LocatedIndices ==
    { i \in 1..Len(MsgGateways) :
        /\ "location" \in DOMAIN MsgGateways[i]
        /\ {"latitude", "longitude"} \subseteq DOMAIN MsgGateways[i].location }

FailingIndices == { i \in LocatedIndices : ~MsgGateways[i].location.acos.in_domain }

\* The device-to-gateway distances of the located reports, truncated to metres.
TruncatedDistances ==
    { MsgGateways[i].location.acos.decimetres \div 10 : i \in LocatedIndices \ FailingIndices }

Smallest(S) == CHOOSE x \in S : \A y \in S : x <= y

Largest(S) == CHOOSE x \in S : \A y \in S : x >= y

Clamp(v, lo, hi) == IF v < lo THEN lo ELSE IF v > hi THEN hi ELSE v

Abs(x) == IF x < 0 THEN -x ELSE x

EndsWith(s, suffix) ==
    Len(s) >= Len(suffix) /\ SubSeq(s, Len(s) - Len(suffix) + 1, Len(s)) = suffix

Encoded == Handled /\ raised = "none" /\ "buffer" \in DOMAIN output

\* The even one of the two integers next to d / unit.
EvenNeighbour(d, unit) ==
    IF (d \div unit) % 2 = 0 THEN d \div unit ELSE (d \div unit) + 1

\* v is clamp(r, lo, hi) for an integer r nearest to d / unit.
IsClampedNearest(v, d, unit, lo, hi) ==
    \E r \in { d \div unit, (d \div unit) + 1 } :
        2 * Abs(unit * r - d) <= unit /\ v = Clamp(r, lo, hi)

\* The gateway loop ran to its end over at least one located report.
Folded ==
    /\ Handled /\ WellFormed /\ MsgHasFix /\ raised = "none"
    /\ LocatedIndices # {}

(***************************************************************************)
(* C1.  For both envelope adapters, an inbound body that is malformed JSON *)
(* or a JSON object lacking a required field yields [False, False]: no     *)
(* exception leaves the adapter and nothing is published.                  *)
(* Stated as claimed; the code raises KeyError for a missing field.        *)
(***************************************************************************)
C1_MalformedEnvelopeYieldsNoDownlink ==
    (Handled /\ ~WellFormed)
        => (raised = "none" /\ result = NoDownlink /\ sent = <<>>)

(***************************************************************************)
(* C2.  A well-formed port-1 or port-11 uplink whose payload decodes to    *)
(* fewer than 10 bytes is handled as a malformed envelope: no downlink,    *)
(* nothing published, no exception to the message callback.                *)
(* Stated as claimed; the code raises IndexError in process().             *)
(***************************************************************************)
C2_ShortPayloadYieldsNoDownlink ==
    (Handled /\ WellFormed /\ MsgPort \in {1, 11} /\ Len(MsgData) < 10)
        => (raised = "none" /\ result = NoDownlink /\ sent = <<>>)

(***************************************************************************)
(* C3.  When the distance computation fails for a gateway (acos argument   *)
(* outside [-1, 1]), the message is not aborted, that gateway changes      *)
(* neither minDistance nor maxDistance, and the downlink is produced from  *)
(* the remaining gateways.                                                 *)
(* Stated as claimed; the code lets math.acos's ValueError leave process().*)
(***************************************************************************)
C3_DistanceFailureSkipsGateway ==
    (Handled /\ WellFormed /\ MsgHasFix /\ FailingIndices # {})
        => /\ raised = "none"
           /\ result # NoDownlink
           /\ "buffer" \in DOMAIN output
           /\ output.min_distance =
                IF TruncatedDistances = {} THEN 1000000
                ELSE Clamp(Smallest(TruncatedDistances), 0, 1000000)
           /\ output.max_distance =
                IF TruncatedDistances = {} THEN 0 ELSE Largest(TruncatedDistances)

(***************************************************************************)
(* C4.  The outbound topic is the inbound topic with only its trailing     *)
(* suffix rewritten ('/up' to '/down/replace' for TTS3, '/event/up' to     *)
(* '/command/down' for ChirpStack), every other character unchanged, also  *)
(* when the suffix text occurs earlier in the topic.                       *)
(* Stated as claimed; str.replace rewrites every occurrence.               *)
(***************************************************************************)
C4_OnlyTrailingSuffixRewritten ==
    LET old == IF IsTts3 THEN UP ELSE EVENT_UP
        new == IF IsTts3 THEN DOWN_REPLACE ELSE COMMAND_DOWN
    IN  (Handled /\ raised = "none" /\ EndsWith(msg.topic, old))
            => /\ result # NoDownlink
               /\ result.topic = SubSeq(msg.topic, 1, Len(msg.topic) - Len(old)) \o new

(***************************************************************************)
(* C5 as claimed.  The encoder rounds distance/250 (port 1) and            *)
(* distance/10 (port 11) half away from zero before clamping: at an exact  *)
(* tie the rounded value is the next higher integer; port 11 with          *)
(* minDistance = 12345 m encodes 1235, hi = 4, lo = 211.                   *)
(***************************************************************************)
C5_TiesRoundAwayFromZero ==
    (Encoded /\ output.has_gps)
        => /\ (MsgPort = 1 /\ output.min_distance % 250 = 125)
                => output.buffer[4] = Clamp((output.min_distance \div 250) + 1, 1, 128)
           /\ (MsgPort = 1 /\ output.max_distance % 250 = 125)
                => output.buffer[5] = Clamp((output.max_distance \div 250) + 1, 1, 128)
           /\ (MsgPort = 11 /\ output.min_distance % 10 = 5)
                => output.buffer[4] * 256 + output.buffer[5]
                     = Clamp((output.min_distance \div 10) + 1, 1, 65535)
           /\ (MsgPort = 11 /\ output.max_distance % 10 = 5)
                => output.buffer[6] * 256 + output.buffer[7]
                     = Clamp((output.max_distance \div 10) + 1, 1, 65535)
           /\ (MsgPort = 11 /\ output.min_distance = 12345)
                => (output.buffer[4] = 4 /\ output.buffer[5] = 211)

(***************************************************************************)
(* C5 as amended.  The encoder rounds distance/250 (port 1) and            *)
(* distance/10 (port 11) half to even before clamping: at an exact tie the *)
(* rounded value is the even one of the two neighbouring integers; port 11 *)
(* with minDistance = 12345 m encodes 1234, hi = 4, lo = 210.              *)
(***************************************************************************)
C5_TiesRoundToEven ==
    (Encoded /\ output.has_gps)
        => /\ (MsgPort = 1 /\ output.min_distance % 250 = 125)
                => output.buffer[4] = Clamp(EvenNeighbour(output.min_distance, 250), 1, 128)
           /\ (MsgPort = 1 /\ output.max_distance % 250 = 125)
                => output.buffer[5] = Clamp(EvenNeighbour(output.max_distance, 250), 1, 128)
           /\ (MsgPort = 11 /\ output.min_distance % 10 = 5)
                => output.buffer[4] * 256 + output.buffer[5]
                     = Clamp(EvenNeighbour(output.min_distance, 10), 1, 65535)
           /\ (MsgPort = 11 /\ output.max_distance % 10 = 5)
                => output.buffer[6] * 256 + output.buffer[7]
                     = Clamp(EvenNeighbour(output.max_distance, 10), 1, 65535)
           /\ (MsgPort = 11 /\ output.min_distance = 12345)
                => (output.buffer[4] = 4 /\ output.buffer[5] = 210)

\* A port-11 downlink was encoded for minDistance = 12345 m, a tie.
C5_Witness ==
    Encoded /\ output.has_gps /\ MsgPort = 11 /\ output.min_distance = 12345

(***************************************************************************)
(* C6.  The downlink buffer has exactly 6 bytes for port 1 and 8 bytes for *)
(* port 11, every byte is in 0..255, and it is [seq mod 256,               *)
(* (minSignal+200) mod 256, (maxSignal+200) mod 256, distance fields,      *)
(* gatewayCount mod 256]: the port-1 fields are clamp(round(d/250), 1,     *)
(* 128), the port-11 fields the big-endian hi/lo split of                  *)
(* clamp(round(d/10), 1, 65535), and all distance fields are 0 without a   *)
(* fix.  round is a nearest integer here (C5 settles the ties).  Port 1,   *)
(* seq 300, signals -80/-60, distances 500/1000 m, 3 gateways gives        *)
(* [44, 120, 140, 2, 4, 3].                                                *)
(***************************************************************************)
C6_BufferLayout ==
    Encoded =>
        LET b == output.buffer
        IN  /\ Len(b) = IF MsgPort = 1 THEN 6 ELSE 8
            /\ \A i \in 1..Len(b) : b[i] \in 0..255
            /\ b[1] = MsgSeq % 256
            /\ b[2] = (output.min_rssi + 200) % 256
            /\ b[3] = (output.max_rssi + 200) % 256
            /\ b[Len(b)] = output.num_gateways % 256
            /\ (MsgPort = 1 /\ output.has_gps)
                 => /\ IsClampedNearest(b[4], output.min_distance, 250, 1, 128)
                    /\ IsClampedNearest(b[5], output.max_distance, 250, 1, 128)
            /\ (MsgPort = 11 /\ output.has_gps)
                 => /\ IsClampedNearest(b[4] * 256 + b[5], output.min_distance,
                                        10, 1, 65535)
                    /\ IsClampedNearest(b[6] * 256 + b[7], output.max_distance,
                                        10, 1, 65535)
            /\ ~output.has_gps => \A i \in 4..(Len(b) - 1) : b[i] = 0
            /\ (/\ MsgPort = 1 /\ MsgSeq = 300 /\ output.has_gps
                /\ output.min_rssi = -80 /\ output.max_rssi = -60
                /\ output.min_distance = 500 /\ output.max_distance = 1000
                /\ output.num_gateways = 3)
                 => b = <<44, 120, 140, 2, 4, 3>>

\* The spec's example was encoded: port 1, seq 300, -80/-60, 500/1000 m, 3.
C6_Witness ==
    /\ Encoded /\ MsgPort = 1 /\ MsgSeq = 300 /\ output.has_gps
    /\ output.min_rssi = -80 /\ output.max_rssi = -60
    /\ output.min_distance = 500 /\ output.max_distance = 1000
    /\ output.num_gateways = 3

(***************************************************************************)
(* C7.  With publishing enabled, a failure of any telemetry emission       *)
(* (including a failure to open the sink) is swallowed: it never aborts    *)
(* the handling, and what is returned equals what is returned for the same *)
(* message with publishing disabled.                                       *)
(* Stated as claimed; a failure to open the sink leaves publish().         *)
(***************************************************************************)
C7_TelemetryFailureSwallowed ==
    (Handled /\ publish_mode /\ sink # "ok")
        => LET off == parser(parser_type, FALSE, msg.topic, msg.payload, sink)
           IN  raised = off.raised /\ result = off.ret

(***************************************************************************)
(* C8.  For both envelope adapters, a well-formed envelope with all        *)
(* required fields and a port other than 1 and 11 yields [False, False]:   *)
(* no exception, no payload decoding, no telemetry, no outbound publish.   *)
(***************************************************************************)
C8_UnsupportedPortSkipped ==
    (Handled /\ WellFormed /\ MsgPort \notin {1, 11})
        => /\ raised = "none"
           /\ result = NoDownlink
           /\ trace = <<"json.loads">>
           /\ emitted = <<>>
           /\ sent = <<>>

\* A well-formed ChirpStack uplink on port 5 was handled with publishing on.
C8_Witness ==
    /\ Handled /\ ~IsTts3 /\ WellFormed /\ MsgPort = 5 /\ publish_mode
    /\ sink = "ok" /\ Len(MsgData) = 10 /\ result = NoDownlink

(***************************************************************************)
(* C9.  With a fix and no gateway report carrying a location (zero         *)
(* gateways included), aggregation leaves minDistance = 1,000,000 and      *)
(* maxDistance = 0 for any number and order of reports; with zero gateways *)
(* also minSignal = 200, maxSignal = -200, gatewayCount = 0; and the       *)
(* port-1 encoder then emits 128 as the min-distance byte.                 *)
(***************************************************************************)
C9_NoLocationKeepsSentinels ==
    (Handled /\ WellFormed /\ MsgHasFix /\ LocatedIndices = {})
        => /\ Encoded
           /\ output.min_distance = 1000000
           /\ output.max_distance = 0
           /\ (Len(MsgGateways) = 0)
                => (output.min_rssi = 200 /\ output.max_rssi = -200
                    /\ output.num_gateways = 0)
           /\ (MsgPort = 1) => output.buffer[4] = 128

\* Port 1, a fix, two reports and neither with both coordinates.
C9_Witness ==
    /\ Handled /\ WellFormed /\ MsgHasFix /\ MsgPort = 1
    /\ Len(MsgGateways) = 2 /\ LocatedIndices = {}
    /\ "location" \in DOMAIN MsgGateways[2]
    /\ Encoded /\ output.buffer[4] = 128

(***************************************************************************)
(* C10 as claimed.  With a fix and at least one located report, after the  *)
(* fold minDistance is the smallest and maxDistance the largest truncated  *)
(* distance among the located reports, for every distance, also above      *)
(* 1,000,000 m; reports without a location change neither bound.           *)
(***************************************************************************)
C10_BoundsAreExtremes ==
    Folded => /\ output.min_distance = Smallest(TruncatedDistances)
              /\ output.max_distance = Largest(TruncatedDistances)
              /\ output.min_distance <= output.max_distance

(***************************************************************************)
(* C10 as amended.  With a fix and at least one located report, after the  *)
(* fold minDistance is the smaller of 1,000,000 and the smallest truncated *)
(* distance among the located reports, and maxDistance the largest (so     *)
(* minDistance <= maxDistance); reports without a location change neither. *)
(***************************************************************************)
C10_BoundsAreCappedExtremes ==
    Folded => /\ output.min_distance
                   = IF Smallest(TruncatedDistances) > 1000000 THEN 1000000
                     ELSE Smallest(TruncatedDistances)
              /\ output.max_distance = Largest(TruncatedDistances)
              /\ output.min_distance <= output.max_distance

\* Two reports folded: one without both coordinates, then one 1,200,000 m
\* away, beyond the initial minimum.
C10_Witness ==
    /\ Folded /\ Len(MsgGateways) = 2
    /\ LocatedIndices = {2}
    /\ MsgGateways[2].location.acos.decimetres = 12000007
    /\ output.min_distance = 1000000 /\ output.max_distance = 1200000

====
